---- MODULE Spec2Model ----
(***************************************************************************)
(* Model of BoxSim.py: the "100 prisoners" simulation.                     *)
(*   Box, Room                  the state container                       *)
(*   PrisonerStrategy           random_strategy / follower_strategy       *)
(*   World                      single prisoner run, single strategy run  *)
(*   monte_carlo_test           the estimator                              *)
(* The room size and the number of tries are scaled down (NumBoxes,        *)
(* MaxTries stand for the literals 100 and 50 of the source).              *)
(***************************************************************************)
EXTENDS Integers, Sequences, FiniteSets, TLC

\* ------------------------------------------------------------ bounds
\* number of boxes of a Room (100 in the source: np.arange(1, 101))
NumBoxes == 4
\* tries of one prisoner (50 in the source: range(50))
MaxTries == 2
\* largest num_samples handed to monte_carlo_test
MaxSamples == 2
\* integers handed to Box(...) range over -MaxBoxVal .. MaxBoxVal
MaxBoxVal == 2

\* ------------------------------------------------------------ values
\* A Python value handed to Box(...): its type and, for an int, its number.
PyInt(n) == [type |-> "int", val |-> n]
PyValues ==
    {PyInt(n) : n \in -MaxBoxVal..MaxBoxVal}
        \cup {[type |-> "float", val |-> 2], [type |-> "str", val |-> 0],
              [type |-> "bool", val |-> 1], [type |-> "numpy.int64", val |-> 1]}

\* What a call hands back: a returned value, or nothing.
RetNone == [kind |-> "none", val |-> 0]
RetInt(n) == [kind |-> "int", val |-> n]
RetBool(b) == [kind |-> "bool", val |-> b]
RetList(s) == [kind |-> "list", val |-> s]
\* successes / len(results), kept as the pair it is computed from
RetRatio(n, d) == [kind |-> "ratio", val |-> <<n, d>>]

NoErr == "none"
NoBox == [value |-> 0, opened |-> FALSE, exists |-> FALSE]

\* ------------------------------------------------------------ Box
\* Box.__init__: the type test, then value and opened.
\* (BoxInitNeverRaises: the type test left out)
BoxInitNeverRaises(hidden_value) == FALSE

BoxInitRaises(hidden_value) == hidden_value.type # "int"

BoxInit(hidden_value) ==
    [value |-> hidden_value.val, opened |-> FALSE, exists |-> TRUE]

\* Box.open_box: the box afterwards (the value returned is b.value).
\* (Box_open_box_stays_sealed: the flag is not set)
Box_open_box_stays_sealed(b) == b

Box_open_box(b) == [b EXCEPT !.opened = TRUE]

\* Box.reseal_box
reseal_box(b) == [b EXCEPT !.opened = FALSE]

\* ------------------------------------------------------------ Room
\* the orders np.random.shuffle can leave 1..NumBoxes in
Shuffles ==
    {p \in [1..NumBoxes -> 1..NumBoxes] :
        \A i, j \in 1..NumBoxes : i # j => p[i] # p[j]}

\* the values the boxes are built from before the shuffle: np.arange(1, 101)
\* (BoxNumbersFromZero: np.arange(0, 100) in its place)
BoxNumbersFromZero == [i \in 1..NumBoxes |-> i - 1]

BoxNumbers == [i \in 1..NumBoxes |-> i]

\* Room.__init__ under one outcome of the shuffle
RoomInit(p) == [i \in 1..NumBoxes |-> BoxInit(PyInt(BoxNumbers[p[i]]))]

\* Room.close_boxes
\* (close_boxes_first_only: the loop left after its first box)
close_boxes_first_only(bs) ==
    [i \in DOMAIN bs |-> IF i = 1 THEN reseal_box(bs[i]) ELSE bs[i]]

close_boxes(bs) == [i \in DOMAIN bs |-> reseal_box(bs[i])]

\* Room.count_boxes_opened: the loop over the boxes from box i on
RECURSIVE CountFrom(_, _)
CountFrom(bs, i) ==
    IF i > Len(bs) THEN 0
    ELSE (IF bs[i].opened THEN 1 ELSE 0) + CountFrom(bs, i + 1)

count_boxes_opened(bs) == CountFrom(bs, 1)

\* Room.get_unopened_boxes: zip(np.arange(1, 101), boxes), kept when not opened
RECURSIVE UnopenedFrom(_, _)
UnopenedFrom(bs, i) ==
    IF i > Len(bs) \/ i > NumBoxes THEN <<>>
    ELSE (IF bs[i].opened = FALSE THEN <<i>> ELSE <<>>) \o UnopenedFrom(bs, i + 1)

\* (get_unopened_boxes_from_zero: the indices taken from np.arange(0, 100))
get_unopened_boxes_from_zero(bs) ==
    [j \in 1..Len(UnopenedFrom(bs, 1)) |-> UnopenedFrom(bs, 1)[j] - 1]

get_unopened_boxes(bs) == UnopenedFrom(bs, 1)

\* Python list subscript boxes[k]: k in 0..len-1 counts from the front,
\* k in -len..-1 counts from the back, anything else raises IndexError.
PySubscriptOk(bs, k) == -Len(bs) <= k /\ k < Len(bs)

PySubscript(bs, k) == IF k >= 0 THEN k + 1 ELSE Len(bs) + k + 1

\* the outcome of a call on a room: the boxes afterwards, the value, the error
Outcome(bs, r, e) == [boxes |-> bs, ret |-> r, err |-> e]

\* Room.open_box
\* (Room_open_box_unguarded: the opened test left out;
\*  Room_open_box_zero_based: boxes[index] in place of boxes[index-1])
Room_open_box_unguarded(bs, index) ==
    IF ~PySubscriptOk(bs, index - 1) THEN Outcome(bs, RetNone, "IndexError")
    ELSE LET pos == PySubscript(bs, index - 1)
         IN Outcome([bs EXCEPT ![pos] = Box_open_box(bs[pos])],
                    RetInt(bs[pos].value), NoErr)

Room_open_box_zero_based(bs, index) ==
    IF ~PySubscriptOk(bs, index) THEN Outcome(bs, RetNone, "IndexError")
    ELSE LET pos == PySubscript(bs, index)
         IN IF bs[pos].opened
            THEN Outcome(bs, RetNone, "BoxAlreadyOpened")
            ELSE Outcome([bs EXCEPT ![pos] = Box_open_box(bs[pos])],
                         RetInt(bs[pos].value), NoErr)

Room_open_box(bs, index) ==
    IF ~PySubscriptOk(bs, index - 1) THEN Outcome(bs, RetNone, "IndexError")
    ELSE LET pos == PySubscript(bs, index - 1)
         IN IF bs[pos].opened
            THEN Outcome(bs, RetNone, "BoxAlreadyOpened")
            ELSE Outcome([bs EXCEPT ![pos] = Box_open_box(bs[pos])],
                         RetInt(bs[pos].value), NoErr)

\* ------------------------------------------------------------ PrisonerStrategy
\* random_strategy: every outcome np.random.choice allows (it raises
\* ValueError on an empty list)
\* (random_strategy_any_box: the choice made among all the boxes)
random_strategy_any_box(bs) ==
    {Room_open_box(bs, j) : j \in 1..NumBoxes}

random_strategy(bs) ==
    LET available_boxes == get_unopened_boxes(bs)
    IN IF available_boxes = <<>> THEN {Outcome(bs, RetNone, "ValueError")}
       ELSE {Room_open_box(bs, available_boxes[j]) :
                j \in 1..Len(available_boxes)}

\* follower_strategy
follower_strategy(bs, current_value) == {Room_open_box(bs, current_value)}

\* PrisonerStrategy.__init__ binds strat to one of the two
Strategies == {"RANDOM", "FOLLOWER"}

\* (strat_swapped: the two strategies bound the wrong way round)
strat_swapped(kind, bs, current_value) ==
    IF kind = "RANDOM" THEN follower_strategy(bs, current_value)
    ELSE random_strategy(bs)

strat(kind, bs, current_value) ==
    IF kind = "RANDOM" THEN random_strategy(bs)
    ELSE follower_strategy(bs, current_value)

\* ------------------------------------------------------------ state
VARIABLES
    boxes,            \* Room.boxes of the room in use (World.room)
    box,              \* a Box built on its own: Box(hidden_value)
    kind,             \* which strategy World.prisoner_strategy.strat is
    pc,               \* where control is
    top,              \* the outermost call in progress
    call,             \* the last call made from outside: [op, arg]
    ret,              \* the value the last finished call returned
    err,              \* the exception the last finished call raised
    num_samples,      \* monte_carlo_test: num_samples
    results,          \* monte_carlo_test: results
    index,            \* run_single_strategy_instance: index
    prisoner_number,  \* run_single_prisoner_instance: prisoner_number
    current_value,    \* run_single_prisoner_instance: current_value
    tries             \* run_single_prisoner_instance: iterations of the loop done

vars == <<boxes, box, kind, pc, top, call, ret, err, num_samples, results,
          index, prisoner_number, current_value, tries>>

trialVars == <<prisoner_number, current_value, tries>>
driverVars == <<num_samples, results, index, prisoner_number, current_value, tries>>

\* indices handed to Room.open_box and follower_strategy from outside
Indices == (-NumBoxes - 1)..(NumBoxes + 1)
\* prisoner numbers handed to run_single_prisoner_instance from outside
\* (NumBoxes + 1 stands for one that is no box, like the default 24601)
PrisonerNumbers == 1..(NumBoxes + 1)

Call(op, arg) == [op |-> op, arg |-> arg]

\* ------------------------------------------------------------ calls from outside
\* a call that runs to its end in one step, on the room
Returns(op, arg, out) ==
    /\ pc = "idle"
    /\ call' = Call(op, arg)
    /\ boxes' = out.boxes
    /\ ret' = out.ret
    /\ err' = out.err
    /\ UNCHANGED <<box, kind, pc, top, driverVars>>

\* Box(hidden_value)
CallBox(hidden_value) ==
    /\ pc = "idle"
    /\ call' = Call("Box", hidden_value)
    /\ IF BoxInitRaises(hidden_value)
       THEN /\ err' = "ValueError"
            /\ UNCHANGED box
       ELSE /\ err' = NoErr
            /\ box' = BoxInit(hidden_value)
    /\ ret' = RetNone
    /\ UNCHANGED <<boxes, kind, pc, top, driverVars>>

\* my_box.open_box()
CallBoxOpen ==
    /\ pc = "idle"
    /\ box.exists
    /\ call' = Call("Box.open_box", 0)
    /\ box' = Box_open_box(box)
    /\ ret' = RetInt(box.value)
    /\ err' = NoErr
    /\ UNCHANGED <<boxes, kind, pc, top, driverVars>>

\* my_box.reseal_box()
CallBoxReseal ==
    /\ pc = "idle"
    /\ box.exists
    /\ call' = Call("Box.reseal_box", 0)
    /\ box' = reseal_box(box)
    /\ ret' = RetNone
    /\ err' = NoErr
    /\ UNCHANGED <<boxes, kind, pc, top, driverVars>>

\* my_room.boxes[k].open_box(), k a list subscript in range
CallMemberOpen(k) ==
    Returns("boxes[k].open_box", k,
            Outcome([boxes EXCEPT ![k + 1] = Box_open_box(boxes[k + 1])],
                    RetInt(boxes[k + 1].value), NoErr))

CallCloseBoxes ==
    Returns("close_boxes", 0, Outcome(close_boxes(boxes), RetNone, NoErr))

CallCountBoxesOpened ==
    Returns("count_boxes_opened", 0,
            Outcome(boxes, RetInt(count_boxes_opened(boxes)), NoErr))

CallGetUnopenedBoxes ==
    Returns("get_unopened_boxes", 0,
            Outcome(boxes, RetList(get_unopened_boxes(boxes)), NoErr))

CallOpenBox(i) == Returns("open_box", i, Room_open_box(boxes, i))

\* PrisonerStrategy(RANDOM).strat(room, ...)
CallRandomStrategy ==
    \E out \in random_strategy(boxes) : Returns("random_strategy", 0, out)

\* PrisonerStrategy(FOLLOWER).strat(room, current_value=i)
CallFollowerStrategy(i) ==
    \E out \in follower_strategy(boxes, i) : Returns("follower_strategy", i, out)

\* ------------------------------------------------------------ World
\* World.reset
CallReset ==
    \E p \in Shuffles : Returns("reset", 0, Outcome(RoomInit(p), RetNone, NoErr))

\* world.prisoner_strategy.strat(world.room, i)
CallStrat(i) ==
    \E out \in strat(kind, boxes, i) : Returns("strat", i, out)

\* world.run_single_prisoner_instance(p): entry, current_value = prisoner_number
CallTrial(p) ==
    /\ pc = "idle"
    /\ call' = Call("run_single_prisoner_instance", p)
    /\ top' = "trial"
    /\ pc' = "trial_loop"
    /\ prisoner_number' = p
    /\ current_value' = p
    /\ tries' = 0
    /\ ret' = RetNone
    /\ err' = NoErr
    /\ UNCHANGED <<boxes, box, kind, num_samples, results, index>>

\* world.run_single_strategy_instance(): entry, index at np.arange(1, 101)[0]
CallEpisode ==
    /\ pc = "idle"
    /\ call' = Call("run_single_strategy_instance", 0)
    /\ top' = "episode"
    /\ pc' = "ep_loop"
    /\ index' = 1
    /\ ret' = RetNone
    /\ err' = NoErr
    /\ UNCHANGED <<boxes, box, kind, num_samples, results, trialVars>>

\* an exception nobody catches: every frame is gone; the program ends, or the
\* outside caller has it
Propagate(e) ==
    /\ err' = e
    /\ ret' = RetNone
    /\ pc' = IF top = "main" THEN "aborted" ELSE "idle"
    /\ top' = IF top = "main" THEN "main" ELSE "none"
    /\ index' = 0
    /\ prisoner_number' = 0
    /\ current_value' = 0
    /\ tries' = 0
    /\ results' = <<>>
    /\ UNCHANGED <<box, kind, call, num_samples>>

\* run_single_prisoner_instance returns b
TrialReturn(b) ==
    /\ ret' = RetBool(b)
    /\ pc' = IF top = "trial" THEN "idle" ELSE "trial_ret"
    /\ top' = IF top = "trial" THEN "none" ELSE top
    /\ prisoner_number' = 0
    /\ current_value' = 0
    /\ tries' = 0
    /\ UNCHANGED <<box, kind, call, err, num_samples, results, index>>

\* one iteration of the loop of run_single_prisoner_instance
\* (TrialStepKeepsContext: current_value = uncovered_value left out;
\*  TrialStepNoCount: a loop that does not count its iterations)
TrialStepNoCount ==
    /\ pc = "trial_loop"
    /\ tries < MaxTries
    /\ \E out \in strat(kind, boxes, current_value) :
        /\ boxes' = out.boxes
        /\ IF out.err # NoErr THEN Propagate(out.err)
           ELSE LET uncovered_value == out.ret.val
                IN IF uncovered_value = prisoner_number THEN TrialReturn(TRUE)
                   ELSE /\ current_value' = uncovered_value
                        /\ UNCHANGED <<box, kind, pc, top, call, ret, err,
                                       num_samples, results, index,
                                       prisoner_number, tries>>

TrialStepKeepsContext ==
    /\ pc = "trial_loop"
    /\ tries < MaxTries
    /\ \E out \in strat(kind, boxes, current_value) :
        /\ boxes' = out.boxes
        /\ IF out.err # NoErr THEN Propagate(out.err)
           ELSE LET uncovered_value == out.ret.val
                IN IF uncovered_value = prisoner_number THEN TrialReturn(TRUE)
                   ELSE /\ tries' = tries + 1
                        /\ UNCHANGED <<box, kind, pc, top, call, ret, err,
                                       num_samples, results, index,
                                       prisoner_number, current_value>>

TrialStep ==
    /\ pc = "trial_loop"
    /\ tries < MaxTries
    /\ \E out \in strat(kind, boxes, current_value) :
        /\ boxes' = out.boxes
        /\ IF out.err # NoErr THEN Propagate(out.err)
           ELSE LET uncovered_value == out.ret.val
                IN IF uncovered_value = prisoner_number THEN TrialReturn(TRUE)
                   ELSE /\ current_value' = uncovered_value
                        /\ tries' = tries + 1
                        /\ UNCHANGED <<box, kind, pc, top, call, ret, err,
                                       num_samples, results, index,
                                       prisoner_number>>

\* the loop of run_single_prisoner_instance is over: return False
TrialExhausted ==
    /\ pc = "trial_loop"
    /\ tries = MaxTries
    /\ TrialReturn(FALSE)
    /\ UNCHANGED boxes

\* run_single_strategy_instance returns b
EpisodeReturn(b) ==
    /\ ret' = RetBool(b)
    /\ pc' = IF top = "episode" THEN "idle" ELSE "ep_ret"
    /\ top' = IF top = "episode" THEN "none" ELSE top
    /\ index' = 0
    /\ UNCHANGED <<box, kind, call, err, num_samples, results, trialVars>>

\* the loop of run_single_strategy_instance calls the next prisoner's run
EpisodeCallTrial ==
    /\ pc = "ep_loop"
    /\ index <= NumBoxes
    /\ pc' = "trial_loop"
    /\ prisoner_number' = index
    /\ current_value' = index
    /\ tries' = 0
    /\ UNCHANGED <<boxes, box, kind, top, call, ret, err, num_samples, results,
                   index>>

\* ... and goes on after it: return False, or close the boxes and continue
\* (EpisodeAfterTrialGoesOn: the test of success left out)
EpisodeAfterTrialGoesOn ==
    /\ pc = "trial_ret"
    /\ boxes' = close_boxes(boxes)
    /\ index' = index + 1
    /\ pc' = "ep_loop"
    /\ UNCHANGED <<box, kind, top, call, ret, err, num_samples, results,
                   trialVars>>

\* (EpisodeAfterTrialNoReseal: self.room.close_boxes() left out)
EpisodeAfterTrialNoReseal ==
    /\ pc = "trial_ret"
    /\ IF ~ret.val
       THEN /\ EpisodeReturn(FALSE)
            /\ UNCHANGED boxes
       ELSE /\ index' = index + 1
            /\ pc' = "ep_loop"
            /\ UNCHANGED <<boxes, box, kind, top, call, ret, err, num_samples,
                           results, trialVars>>

EpisodeAfterTrial ==
    /\ pc = "trial_ret"
    /\ IF ~ret.val
       THEN /\ EpisodeReturn(FALSE)
            /\ UNCHANGED boxes
       ELSE /\ boxes' = close_boxes(boxes)
            /\ index' = index + 1
            /\ pc' = "ep_loop"
            /\ UNCHANGED <<box, kind, top, call, ret, err, num_samples, results,
                           trialVars>>

\* the loop of run_single_strategy_instance is over: return True
EpisodeFinish ==
    /\ pc = "ep_loop"
    /\ index > NumBoxes
    /\ EpisodeReturn(TRUE)
    /\ UNCHANGED boxes

\* ------------------------------------------------------------ monte_carlo_test
\* np.sum(results)
RECURSIVE SumFrom(_, _)
SumFrom(rs, i) ==
    IF i > Len(rs) THEN 0 ELSE (IF rs[i] THEN 1 ELSE 0) + SumFrom(rs, i + 1)

\* (np_sum_len: the results counted, not the successes)
np_sum_len(rs) == Len(rs)

np_sum(rs) == SumFrom(rs, 1)

\* one iteration of the loop: world.reset(), then the strategy run is entered
\* (MCIterNoReset: world.reset() left out)
MCIterNoReset ==
    /\ pc = "mc_loop"
    /\ Len(results) < num_samples
    /\ index' = 1
    /\ pc' = "ep_loop"
    /\ UNCHANGED <<boxes, box, kind, top, call, ret, err, num_samples, results,
                   trialVars>>

MCIter ==
    /\ pc = "mc_loop"
    /\ Len(results) < num_samples
    /\ \E p \in Shuffles : boxes' = RoomInit(p)
    /\ index' = 1
    /\ pc' = "ep_loop"
    /\ UNCHANGED <<box, kind, top, call, ret, err, num_samples, results, trialVars>>

\* results.append(result)
MCRecord ==
    /\ pc = "ep_ret"
    /\ results' = Append(results, ret.val)
    /\ pc' = "mc_loop"
    /\ UNCHANGED <<boxes, box, kind, top, call, ret, err, num_samples, index,
                   trialVars>>

\* return successes / len(results)
MCReturn ==
    /\ pc = "mc_loop"
    /\ Len(results) = num_samples
    /\ ret' = RetRatio(np_sum(results), Len(results))
    /\ pc' = "done"
    /\ UNCHANGED <<boxes, box, kind, top, call, err, num_samples, results, index,
                   trialVars>>

\* ------------------------------------------------------------ specifications
\* the program: monte_carlo_test(num_samples, strategy), from the point where
\* world = World(prisoner_strategy=strategy) and results = [] are set
Init ==
    /\ \E p \in Shuffles : boxes = RoomInit(p)
    /\ box = NoBox
    /\ kind \in Strategies
    /\ pc = "mc_loop"
    /\ top = "main"
    /\ num_samples \in 1..MaxSamples
    /\ call = Call("monte_carlo_test", num_samples)
    /\ ret = RetNone
    /\ err = NoErr
    /\ results = <<>>
    /\ index = 0
    /\ prisoner_number = 0
    /\ current_value = 0
    /\ tries = 0

Next ==
    \/ MCIter
    \/ EpisodeCallTrial
    \/ TrialStep
    \/ TrialExhausted
    \/ EpisodeAfterTrial
    \/ EpisodeFinish
    \/ MCRecord
    \/ MCReturn

Spec == Init /\ [][Next]_vars

\* a World used from outside, from World(prisoner_strategy) on
InitWorld ==
    /\ \E p \in Shuffles : boxes = RoomInit(p)
    /\ box = NoBox
    /\ kind \in Strategies
    /\ pc = "idle"
    /\ top = "none"
    /\ num_samples = 0
    /\ call = Call("World", 0)
    /\ ret = RetNone
    /\ err = NoErr
    /\ results = <<>>
    /\ index = 0
    /\ prisoner_number = 0
    /\ current_value = 0
    /\ tries = 0

NextWorld ==
    \/ CallReset
    \/ \E i \in 1..NumBoxes : CallStrat(i)
    \/ \E p \in PrisonerNumbers : CallTrial(p)
    \/ CallEpisode
    \/ EpisodeCallTrial
    \/ TrialStep
    \/ TrialExhausted
    \/ EpisodeAfterTrial
    \/ EpisodeFinish

SpecWorld == InitWorld /\ [][NextWorld]_vars

\* a Room, a Box and the two strategies used from outside, from Room() on
InitRoom ==
    /\ \E p \in Shuffles : boxes = RoomInit(p)
    /\ box = NoBox
    /\ kind = "RANDOM"
    /\ pc = "idle"
    /\ top = "none"
    /\ num_samples = 0
    /\ call = Call("Room", 0)
    /\ ret = RetNone
    /\ err = NoErr
    /\ results = <<>>
    /\ index = 0
    /\ prisoner_number = 0
    /\ current_value = 0
    /\ tries = 0

NextRoom ==
    \/ \E k \in 0..(NumBoxes - 1) : CallMemberOpen(k)
    \/ CallCloseBoxes
    \/ CallCountBoxesOpened
    \/ CallGetUnopenedBoxes
    \/ \E i \in Indices : CallOpenBox(i)
    \/ CallRandomStrategy
    \/ \E i \in Indices : CallFollowerStrategy(i)

SpecRoom == InitRoom /\ [][NextRoom]_vars

\* a Box built and used on its own, beside the boxes of one room in one order
BoxShuffles ==
    {[i \in 1..NumBoxes |-> i], [i \in 1..NumBoxes |-> NumBoxes + 1 - i]}

InitBox ==
    /\ \E p \in BoxShuffles : boxes = RoomInit(p)
    /\ box = NoBox
    /\ kind = "RANDOM"
    /\ pc = "idle"
    /\ top = "none"
    /\ num_samples = 0
    /\ call = Call("Room", 0)
    /\ ret = RetNone
    /\ err = NoErr
    /\ results = <<>>
    /\ index = 0
    /\ prisoner_number = 0
    /\ current_value = 0
    /\ tries = 0

NextBox ==
    \/ \E hidden_value \in PyValues : CallBox(hidden_value)
    \/ CallBoxOpen
    \/ CallBoxReseal
    \/ \E i \in Indices : CallOpenBox(i)
    \/ CallCloseBoxes

SpecBox == InitBox /\ [][NextBox]_vars

\* ------------------------------------------------------------ properties
\* the values held by the boxes of a room, and what a call from outside was
BoxValues(bs) == {bs[i].value : i \in DOMAIN bs}

Called(op) == call'.op = op

\* the sequence s without the element x
Without(s, x) == SelectSeq(s, LAMBDA y : y # x)

FullRange == [i \in 1..NumBoxes |-> i]

\* the value r is the bool b, the int n, the ratio n / d
IsBool(r, b) == r.kind = "bool" /\ r.val = b

IsInt(r, n) == r.kind = "int" /\ r.val = n

IsRatio(r, n, d) == r.kind = "ratio" /\ r.val = <<n, d>>

\* C1: in every reachable state the room holds exactly NumBoxes (100) boxes
\* whose values are exactly 1..NumBoxes, each value appearing exactly once.
C1_RoomHoldsPermutation ==
    /\ DOMAIN boxes = 1..NumBoxes
    /\ BoxValues(boxes) = 1..NumBoxes
    /\ \A i, j \in DOMAIN boxes : boxes[i].value = boxes[j].value => i = j

\* C1 witness: a strategy run made from outside has ended on failure, leaving
\* boxes opened, in a room built by reset.
C1_Witness ==
    /\ pc = "idle"
    /\ call.op = "run_single_strategy_instance"
    /\ IsBool(ret, FALSE)
    /\ count_boxes_opened(boxes) > 0

\* C2: Room.open_box(i), i in 1..NumBoxes, on a box already opened raises
\* BoxAlreadyOpened and changes no box of the room (value or opened flag).
C2_OpenOpenedFails ==
    [][(Called("open_box") /\ call'.arg \in 1..NumBoxes /\ boxes[call'.arg].opened)
          => (err' = "BoxAlreadyOpened" /\ boxes' = boxes)]_vars

\* C2 witness: open_box(i) with i in range has just raised BoxAlreadyOpened.
C2_Witness ==
    /\ call.op = "open_box"
    /\ call.arg \in 1..NumBoxes
    /\ err = "BoxAlreadyOpened"
    /\ boxes[call.arg].opened

\* C3 (the claim as stated): Room.open_box(index) with index outside
\* 1..NumBoxes raises IndexError and opens no box.
C3_OutOfRangeFails ==
    [][(Called("open_box") /\ call'.arg \notin 1..NumBoxes)
          => (err' = "IndexError" /\ boxes' = boxes)]_vars

\* C4: Room.open_box(i), i in 1..NumBoxes, on an unopened box returns the value
\* at position i, raises count_boxes_opened by exactly 1, takes i and only i
\* out of get_unopened_boxes, and leaves every other box as it was.
C4_OpenUnopened ==
    [][(Called("open_box") /\ call'.arg \in 1..NumBoxes /\ ~boxes[call'.arg].opened)
          => LET i == call'.arg
             IN /\ err' = NoErr
                /\ IsInt(ret', boxes[i].value)
                /\ count_boxes_opened(boxes') = count_boxes_opened(boxes) + 1
                /\ get_unopened_boxes(boxes') = Without(get_unopened_boxes(boxes), i)
                /\ boxes'[i] = [boxes[i] EXCEPT !.opened = TRUE]
                /\ \A j \in 1..NumBoxes : j # i => boxes'[j] = boxes[j]]_vars

\* C4 witness: open_box(i) has just opened the box at i, not the first one to
\* be opened, and returned its value.
C4_Witness ==
    /\ call.op = "open_box"
    /\ call.arg \in 2..NumBoxes
    /\ err = NoErr
    /\ IsInt(ret, boxes[call.arg].value)
    /\ boxes[call.arg].opened
    /\ count_boxes_opened(boxes) >= 2

\* C5: from any room state, close_boxes leaves count_boxes_opened at 0 and
\* get_unopened_boxes at the full ascending range 1..NumBoxes, and changes no
\* box value.
C5_CloseAll ==
    [][Called("close_boxes")
          => /\ err' = NoErr
             /\ count_boxes_opened(boxes') = 0
             /\ get_unopened_boxes(boxes') = FullRange
             /\ \A i \in 1..NumBoxes : boxes'[i].value = boxes[i].value]_vars

\* C5 witness: close_boxes has just returned and every box is sealed.
C5_Witness ==
    /\ call.op = "close_boxes"
    /\ err = NoErr
    /\ \A i \in 1..NumBoxes : ~boxes[i].opened

\* a prisoner's run is in its loop; it returns b in this step; a box is opened
\* in this step
InTrial == pc = "trial_loop"

TrialReturns(b) ==
    /\ pc = "trial_loop"
    /\ pc' \in {"idle", "trial_ret"}
    /\ err' = NoErr
    /\ IsBool(ret', b)

NewlyOpened == {i \in 1..NumBoxes : ~boxes[i].opened /\ boxes'[i].opened}

\* C6: a prisoner's run makes at most MaxTries (50) reveals, the first with the
\* prisoner's number as context and each later one with the value revealed
\* before it; it returns True exactly at a reveal that yields the prisoner's
\* number, with no reveal after it, and returns False exactly when MaxTries
\* reveals were made and none yielded the number.
C6_TrialLoop ==
    /\ [](InTrial =>
            /\ tries \in 0..MaxTries
            /\ (tries = 0 => current_value = prisoner_number)
            /\ (tries > 0 => current_value # prisoner_number))
    /\ [][InTrial =>
            /\ boxes' # boxes =>
                /\ tries < MaxTries
                /\ Cardinality(NewlyOpened) = 1
                /\ \A i \in NewlyOpened :
                    /\ (kind = "FOLLOWER" => i = current_value)
                    /\ \A j \in 1..NumBoxes : j # i => boxes'[j] = boxes[j]
                    /\ IF boxes[i].value = prisoner_number
                       THEN TrialReturns(TRUE)
                       ELSE /\ pc' = "trial_loop"
                            /\ current_value' = boxes[i].value
                            /\ tries' = tries + 1
                            /\ prisoner_number' = prisoner_number
            /\ TrialReturns(TRUE) => boxes' # boxes
            /\ TrialReturns(FALSE) <=> tries = MaxTries
            /\ tries = MaxTries => boxes' = boxes]_vars

\* C6 witness: a prisoner's run called from outside has returned True at its
\* last permitted reveal.
C6_Witness ==
    /\ pc = "idle"
    /\ call.op = "run_single_prisoner_instance"
    /\ call.arg \in 1..NumBoxes
    /\ err = NoErr
    /\ IsBool(ret, TRUE)
    /\ count_boxes_opened(boxes) = MaxTries
    /\ \E i \in 1..NumBoxes : boxes[i].opened /\ boxes[i].value = call.arg

\* the strategy run returns b in this step
EpisodeReturns(b) ==
    /\ pc \in {"ep_loop", "trial_ret"}
    /\ pc' \in {"idle", "ep_ret"}
    /\ err' = NoErr
    /\ IsBool(ret', b)
    /\ index' = 0

InEpisode == top \in {"episode", "main"}

\* C7: a strategy run takes the prisoners in ascending order 1, 2, ...; it
\* returns True exactly when the runs of all NumBoxes (100) prisoners returned
\* True; when the run of prisoner k returns False it returns False at once,
\* starting no further run and opening no further box.
C7_EpisodeLoop ==
    /\ [](InEpisode =>
            /\ (pc = "ep_loop" => index \in 1..(NumBoxes + 1))
            /\ (pc \in {"trial_loop", "trial_ret"} => index \in 1..NumBoxes)
            /\ (pc = "trial_loop" => prisoner_number = index))
    /\ [][InEpisode =>
            /\ (pc = "ep_loop" /\ index <= NumBoxes) =>
                /\ pc' = "trial_loop"
                /\ prisoner_number' = index
                /\ current_value' = index
                /\ tries' = 0
                /\ UNCHANGED <<boxes, index>>
            /\ (pc = "ep_loop" /\ index > NumBoxes) =>
                /\ EpisodeReturns(TRUE)
                /\ UNCHANGED boxes
            /\ (pc = "trial_ret" /\ IsBool(ret, FALSE)) =>
                /\ EpisodeReturns(FALSE)
                /\ UNCHANGED <<boxes, trialVars>>
            /\ (pc = "trial_ret" /\ IsBool(ret, TRUE)) =>
                /\ pc' = "ep_loop"
                /\ index' = index + 1
                /\ count_boxes_opened(boxes') = 0
            /\ EpisodeReturns(TRUE) => (pc = "ep_loop" /\ index = NumBoxes + 1)
            /\ EpisodeReturns(FALSE) => (pc = "trial_ret" /\ IsBool(ret, FALSE))
            /\ (index' # index /\ index' # 0) =>
                (pc = "trial_ret" /\ IsBool(ret, TRUE) /\ index' = index + 1)]_vars

\* C7 witness: a strategy run has returned False at a prisoner after the first,
\* leaving that prisoner's boxes opened.
C7_Witness ==
    /\ pc = "idle"
    /\ call.op = "run_single_strategy_instance"
    /\ err = NoErr
    /\ IsBool(ret, FALSE)
    /\ kind = "FOLLOWER"
    /\ count_boxes_opened(boxes) = MaxTries
    /\ ~boxes[1].opened

\* how many of the results are True
Successes(rs) == Cardinality({i \in DOMAIN rs : rs[i]})

FreshRoom(bs) ==
    /\ DOMAIN bs = 1..NumBoxes
    /\ BoxValues(bs) = 1..NumBoxes
    /\ \A i \in 1..NumBoxes : ~bs[i].opened

\* C8: monte_carlo_test runs exactly num_samples strategy runs, each begun on
\* a newly built room with every box unopened whatever the run before left,
\* and returns (number of runs that returned True) / num_samples: exactly 1
\* when every run succeeds, exactly 0 when every run fails.
C8_Estimator ==
    /\ [](/\ Len(results) <= num_samples
          /\ pc = "done" =>
                /\ Len(results) = num_samples
                /\ IsRatio(ret, Successes(results), num_samples)
                /\ (\A i \in DOMAIN results : results[i]) => ret.val[1] = ret.val[2]
                /\ (\A i \in DOMAIN results : ~results[i]) => ret.val[1] = 0)
    /\ [][/\ (pc = "mc_loop" /\ Len(results) < num_samples) =>
                /\ pc' = "ep_loop"
                /\ index' = 1
                /\ FreshRoom(boxes')
                /\ results' = results
          /\ (pc = "mc_loop" /\ Len(results) >= num_samples) => pc' = "done"
          /\ pc = "ep_ret" =>
                /\ results' = Append(results, ret.val)
                /\ pc' = "mc_loop"
          /\ (results' # results /\ pc' # "aborted") => pc = "ep_ret"]_vars

\* C8 witness: the estimator has returned after a failed run, which left boxes
\* opened, followed by a successful one.
C8_Witness ==
    /\ pc = "done"
    /\ num_samples = 2
    /\ results = <<FALSE, TRUE>>
    /\ IsRatio(ret, 1, 2)

\* C9: in the program (every strategy run begun on a newly built room, either
\* strategy) no call of Room.open_box raises BoxAlreadyOpened: every reveal of
\* a prisoner's run opens a box that was unopened, so the boxes opened in the
\* run are as many as its reveals.
C9_NeverAlreadyOpened ==
    /\ err # "BoxAlreadyOpened"
    /\ pc = "trial_loop" => count_boxes_opened(boxes) = tries

\* C9 witness: with the Follower strategy a prisoner after the first has made
\* MaxTries reveals, all of different boxes.
C9_Witness ==
    /\ kind = "FOLLOWER"
    /\ pc = "trial_loop"
    /\ index >= 2
    /\ tries = MaxTries
    /\ count_boxes_opened(boxes) = MaxTries

\* C10 (the claim as stated): every Box that exists has a positive integer
\* value, and a Box just built is unopened.
C10_PositiveValue ==
    /\ box.exists => box.value >= 1
    /\ (call.op = "Box" /\ err = NoErr) => ~box.opened

\* C10 (amended): Box(v) builds an unopened Box holding v for every int v, zero
\* and negatives included, and raises ValueError, building nothing, for every
\* v that is no int; no later call (open_box, reseal_box, Room.open_box,
\* close_boxes) changes the value of a Box.
C10_IntegerValueFixed ==
    [][/\ Called("Box") =>
            IF call'.arg.type = "int"
            THEN /\ err' = NoErr
                 /\ box' = [value |-> call'.arg.val, opened |-> FALSE,
                            exists |-> TRUE]
            ELSE /\ err' = "ValueError"
                 /\ box' = box
       /\ (~Called("Box") /\ box.exists) =>
            (box'.exists /\ box'.value = box.value)
       /\ \A i \in 1..NumBoxes : boxes'[i].value = boxes[i].value]_vars

\* C10 witness: a Box holding a value that is not positive has been built and
\* then opened.
C10_Witness ==
    /\ box.exists
    /\ box.value <= 0
    /\ box.opened
    /\ call.op = "Box.open_box"
    /\ IsInt(ret, box.value)

\* the room read as the permutation pi: position -> value; pi applied k times
\* to p; the length of the cycle of pi that p lies on
RECURSIVE PiPow(_, _, _)
PiPow(bs, k, p) == IF k = 0 THEN p ELSE bs[PiPow(bs, k - 1, p)].value

CycleLength(bs, p) ==
    CHOOSE k \in 1..NumBoxes :
        /\ PiPow(bs, k, p) = p
        /\ \A j \in 1..(k - 1) : PiPow(bs, j, p) # p

LongCycle(bs) == {p \in 1..NumBoxes : CycleLength(bs, p) > MaxTries}

Smallest(S) == CHOOSE x \in S : \A y \in S : x <= y

\* C11: with the Follower strategy the k-th box a prisoner p opens is the one
\* at index pi^(k-1)(p); p's run returns True exactly when p's cycle has
\* length at most MaxTries (50); the strategy run returns True exactly when pi
\* has no longer cycle, and otherwise returns False at the smallest-numbered
\* prisoner on a longer cycle.
C11_FollowerCycles ==
    kind = "FOLLOWER" =>
        /\ pc = "trial_loop" =>
            /\ current_value = PiPow(boxes, tries, prisoner_number)
            /\ \A i \in 1..NumBoxes :
                boxes[i].opened <=>
                    \E k \in 1..tries : i = PiPow(boxes, k - 1, prisoner_number)
        /\ pc = "trial_ret" =>
            /\ IsBool(ret, CycleLength(boxes, index) <= MaxTries)
            /\ ~ret.val => index = Smallest(LongCycle(boxes))
        /\ pc = "ep_ret" => IsBool(ret, LongCycle(boxes) = {})
        /\ (pc = "ep_ret" /\ ~ret.val) =>
            \A i \in 1..NumBoxes :
                boxes[i].opened <=>
                    \E k \in 1..MaxTries :
                        i = PiPow(boxes, k - 1, Smallest(LongCycle(boxes)))

\* C11 witness: a Follower strategy run has returned False at a prisoner after
\* the first, the smallest one on a cycle longer than MaxTries.
C11_Witness ==
    /\ kind = "FOLLOWER"
    /\ pc = "ep_ret"
    /\ IsBool(ret, FALSE)
    /\ LongCycle(boxes) # {}
    /\ Smallest(LongCycle(boxes)) >= 2
    /\ boxes[Smallest(LongCycle(boxes))].opened

\* C12: in a strategy run begun on a room with every box unopened, the run of
\* every prisoner 1..NumBoxes begins with count_boxes_opened() = 0: the boxes
\* are resealed after each successful run, before the next prisoner's first
\* reveal.
C12_TrialStartsClosed ==
    /\ pc = "ep_loop" => count_boxes_opened(boxes) = 0
    /\ (pc = "trial_loop" /\ tries = 0) =>
        /\ prisoner_number = index
        /\ index \in 1..NumBoxes
        /\ count_boxes_opened(boxes) = 0
        /\ get_unopened_boxes(boxes) = FullRange

\* C12 witness: the last prisoner's run is about to make its first reveal, all
\* boxes resealed after the runs before it.
C12_Witness ==
    /\ pc = "trial_loop"
    /\ tries = 0
    /\ index = NumBoxes
    /\ prisoner_number = NumBoxes
    /\ count_boxes_opened(boxes) = 0

\* C13: a call of the Random strategy on a room with k >= 1 unopened boxes,
\* whatever context is passed, opens exactly one box, unopened before, and
\* returns its value, leaving k - 1 unopened and every other box as it was; on
\* a room with no unopened box the call fails and changes no box.
C13_RandomReveal ==
    [][(Called("strat") /\ kind = "RANDOM") =>
          LET k == Len(get_unopened_boxes(boxes))
          IN IF k >= 1
             THEN /\ err' = NoErr
                  /\ Cardinality(NewlyOpened) = 1
                  /\ \A i \in NewlyOpened :
                        /\ IsInt(ret', boxes[i].value)
                        /\ boxes' = [boxes EXCEPT ![i].opened = TRUE]
                  /\ Len(get_unopened_boxes(boxes')) = k - 1
             ELSE /\ err' # NoErr
                  /\ boxes' = boxes]_vars

\* C13 witness: the Random strategy, called from outside, has just opened the
\* last unopened box of the room and returned a value.
C13_Witness ==
    /\ kind = "RANDOM"
    /\ pc = "idle"
    /\ call.op = "strat"
    /\ err = NoErr
    /\ ret.kind = "int"
    /\ count_boxes_opened(boxes) = NumBoxes

\* steps a prisoner's run, a prisoner's turn, a strategy run and one sample
\* take at most
TrialSteps == MaxTries + 1

TurnSteps == TrialSteps + 2

EpisodeSteps == NumBoxes * TurnSteps + 1

SampleSteps == EpisodeSteps + 2

InRun == pc \in {"ep_loop", "trial_loop", "trial_ret", "ep_ret"}

\* strategy runs not yet begun
SamplesLeft == num_samples - Len(results) - (IF InRun THEN 1 ELSE 0)

\* prisoners' runs the strategy run in progress can still begin
TrialsLeft ==
    CASE pc = "ep_loop" -> NumBoxes - index + 1
      [] pc \in {"trial_loop", "trial_ret"} -> NumBoxes - index
      [] OTHER -> 0

\* boxes the strategy run in progress can still open, and the estimator
OpensLeftInRun ==
    TrialsLeft * MaxTries + (IF pc = "trial_loop" THEN MaxTries - tries ELSE 0)

OpensLeft == SamplesLeft * NumBoxes * MaxTries + OpensLeftInRun

\* steps the estimator can still take
StepsLeft ==
    CASE pc \in {"done", "aborted"} -> 0
      [] pc = "mc_loop" -> SamplesLeft * SampleSteps + 1
      [] OTHER ->
            (SamplesLeft * SampleSteps + 2)
            + (IF pc = "ep_ret" THEN 0 ELSE TrialsLeft * TurnSteps + 1)
            + (CASE pc = "trial_loop" -> (TrialSteps - tries) + 1
                 [] pc = "trial_ret" -> 1
                 [] OTHER -> 0)

\* C14: every strategy run begun on a fresh room ends, with either strategy,
\* after at most NumBoxes (100) prisoners' runs and NumBoxes * MaxTries
\* (100 x 50) openings, and the estimator ends after at most
\* NumBoxes * MaxTries * num_samples openings: the runs, openings and steps
\* still possible start at these bounds, never go below 0, go down with every
\* run begun, box opened and step taken, and a step is possible until the
\* estimator has returned.
C14_BoundedWork ==
    /\ [](/\ TrialsLeft \in 0..NumBoxes
          /\ OpensLeftInRun \in 0..(NumBoxes * MaxTries)
          /\ OpensLeft \in 0..(NumBoxes * MaxTries * num_samples)
          /\ StepsLeft \in 0..(num_samples * SampleSteps + 1)
          /\ pc \notin {"done", "aborted"} => ENABLED Next)
    /\ [][/\ StepsLeft' < StepsLeft
          /\ OpensLeft' <= OpensLeft - Cardinality(NewlyOpened)
          /\ pc' = "trial_loop" /\ pc = "ep_loop" => TrialsLeft' = TrialsLeft - 1
          /\ pc # "mc_loop" =>
                /\ TrialsLeft' <= TrialsLeft
                /\ OpensLeftInRun' <= OpensLeftInRun - Cardinality(NewlyOpened)]_vars

\* C14 witness: the estimator has returned after MaxSamples strategy runs of
\* the Random strategy in which every prisoner's run succeeded.
C14_Witness ==
    /\ pc = "done"
    /\ kind = "RANDOM"
    /\ num_samples = MaxSamples
    /\ Len(results) = MaxSamples
    /\ \A i \in 1..MaxSamples : results[i]

\* the elements of a sequence; the sequence goes strictly up
Range(s) == {s[j] : j \in DOMAIN s}

Ascending(s) == \A j \in 1..(Len(s) - 1) : s[j] < s[j + 1]

\* C15: in every room state get_unopened_boxes() is exactly the 1-based
\* indices of the boxes whose opened flag is false, in strictly ascending
\* order, so count_boxes_opened() + len(get_unopened_boxes()) = NumBoxes (100);
\* neither call changes a box.
C15_UnopenedIndices ==
    /\ [](LET u == get_unopened_boxes(boxes)
          IN /\ Range(u) = {i \in 1..NumBoxes : ~boxes[i].opened}
             /\ Ascending(u)
             /\ count_boxes_opened(boxes) =
                    Cardinality({i \in 1..NumBoxes : boxes[i].opened})
             /\ count_boxes_opened(boxes) + Len(u) = NumBoxes)
    /\ [][/\ Called("get_unopened_boxes") =>
                /\ boxes' = boxes
                /\ err' = NoErr
                /\ ret'.kind = "list"
                /\ Range(ret'.val) = {i \in 1..NumBoxes : ~boxes[i].opened}
                /\ Ascending(ret'.val)
          /\ Called("count_boxes_opened") =>
                /\ boxes' = boxes
                /\ err' = NoErr
                /\ IsInt(ret', NumBoxes - Len(get_unopened_boxes(boxes)))]_vars

\* C15 witness: get_unopened_boxes() has just returned a list that has neither
\* the first nor the last index, and holds others.
C15_Witness ==
    /\ call.op = "get_unopened_boxes"
    /\ ret.kind = "list"
    /\ Len(ret.val) = NumBoxes - 2
    /\ boxes[1].opened
    /\ boxes[NumBoxes].opened

C17_OpenedWithinBudget ==
    /\ [](/\ count_boxes_opened(boxes) <= MaxTries
          /\ pc = "trial_loop" =>
                /\ tries \in 0..MaxTries
                /\ Cardinality({i \in 1..NumBoxes : boxes[i].opened}) = tries
          /\ (pc = "trial_ret" /\ IsBool(ret, TRUE)) =>
                count_boxes_opened(boxes) \in 1..MaxTries)
    /\ [][(pc = "trial_loop" /\ tries' = tries + 1) =>
                /\ Cardinality(NewlyOpened) = 1
                /\ count_boxes_opened(boxes') = tries']_vars

\* C17 witness: with the Random strategy the last prisoner has used up all
\* MaxTries reveals, and exactly MaxTries boxes are opened.
C17_Witness ==
    /\ kind = "RANDOM"
    /\ pc = "trial_loop"
    /\ index = NumBoxes
    /\ tries = MaxTries
    /\ count_boxes_opened(boxes) = MaxTries

====
